---- MODULE Spec2Model ----
(***************************************************************************)
(* A model of bokeh/layouts.py: the row / column / layout builders, the    *)
(* gridplot assembler and the GridSpec sparse grid.                        *)
(*                                                                         *)
(* Python values are modelled as follows.                                  *)
(*   - A LayoutDOM object is a reference (a string id) into a heap; its    *)
(*     mutable attributes (sizing_mode, toolbar_location, ...) are heap    *)
(*     functions, so aliasing of one object in several places is kept.     *)
(*   - An element of an argument list is a tagged record: [leaf |-> x] for *)
(*     a non-list value x, [list |-> s] for a Python list with elements s, *)
(*     [none |-> TRUE] for None.                                           *)
(*   - A container built by the module is a record                         *)
(*     [type, children, sizing_mode]; it is a fresh object.                *)
(*   - A call yields [exc, value, ...]: exc is "None" on a normal return   *)
(*     and the exception's class name otherwise.                           *)
(***************************************************************************)
EXTENDS Integers, Sequences, FiniteSets, TLC

VARIABLES
    sizing,      \* heap: LayoutDOM object -> its sizing_mode attribute
    ret,         \* the last call of row / column / layout and what it gave
    nrows,       \* GridSpec.nrows
    ncols,       \* GridSpec.ncols
    arrangement, \* GridSpec._arrangement: a dict, kept in insertion order
    gsop,        \* the last GridSpec.__setitem__ call and what it gave
    latest,      \* history: cell -> the value most recently stored there
    nassign,     \* the number of __setitem__ calls so far
    toolbar_location, \* heap: Plot -> its toolbar_location attribute
    plot_width,  \* heap: Plot -> its plot_width attribute
    plot_height, \* heap: Plot -> its plot_height attribute
    gp           \* the last call of gridplot and what it gave

layoutVars == <<sizing, ret>>
gridVars == <<nrows, ncols, arrangement, gsop, latest, nassign>>
plotVars == <<toolbar_location, plot_width, plot_height, gp>>
vars == <<sizing, ret, nrows, ncols, arrangement, gsop, latest, nassign,
          toolbar_location, plot_width, plot_height, gp>>

-----------------------------------------------------------------------------
(* Values *)

None == "None"
NoneItem == [none |-> TRUE]

\* Plot instances; "b1" is a container (a LayoutDOM that is no Plot) built
\* earlier, which holds the plot "p2"
Plots == {"p1", "p2"}
Boxes == {"b1"}
\* the LayoutDOM objects callers hand to the builders
LayoutDOMs == {"p1"} \cup Boxes
\* a value that is neither a list nor a LayoutDOM (a str, an int, ...)
Junk == {"junk"}
SizingModes == {None, "fixed", "stretch_both"}

IsList(item) == "list" \in DOMAIN item
IsNone(item) == "none" \in DOMAIN item
IsLeaf(item) == "leaf" \in DOMAIN item
IsLayoutDOM(item) ==
    \/ "type" \in DOMAIN item
    \/ IsLeaf(item) /\ item.leaf \in LayoutDOMs

Leaf(x) == [leaf |-> x]
List(s) == [list |-> s]

-----------------------------------------------------------------------------
(* Bounded inputs: nested lists with at most MaxSize nodes (lists and      *)
(* non-list elements together), the outermost list not counted.            *)

MaxSize == 3

RECURSIVE Forests(_, _)
\* the sequences of elements whose sizes sum to exactly n; atoms are the
\* elements that are no lists
Forests(n, atoms) ==
    IF n = 0 THEN {<<>>}
    ELSE UNION { { <<t>> \o f : t \in ((IF k = 1 THEN atoms ELSE {})
                                       \cup {List(g) : g \in Forests(k - 1, atoms)}),
                               f \in Forests(n - k, atoms) } : k \in 1..n }

NestedLists ==
    UNION { Forests(n, {Leaf(x) : x \in LayoutDOMs \cup Junk}) : n \in 0..MaxSize }

-----------------------------------------------------------------------------
(* _handle_children: args are the positional arguments, children the       *)
(* keyword argument (NoneItem when absent); a GridSpec argument is handed  *)
(* on like a list of lists and is not modelled apart                       *)

_handle_children(args, children) ==
    IF Len(args) > 0 /\ ~IsNone(children)
    THEN [exc |-> "ValueError", value |-> <<>>]
    ELSE IF IsNone(children) \/ children.list = <<>>
         THEN IF Len(args) = 1 /\ IsList(args[1])
              THEN [exc |-> None, value |-> args[1].list]
              ELSE [exc |-> None, value |-> args]
         ELSE [exc |-> None, value |-> children.list]

-----------------------------------------------------------------------------
(* row, column *)

Row(children, sizing_mode) ==
    [type |-> "Row", children |-> children, sizing_mode |-> sizing_mode]

Column(children, sizing_mode) ==
    [type |-> "Column", children |-> children, sizing_mode |-> sizing_mode]

row(args, children, sizing_mode) ==
    LET hc == _handle_children(args, children) IN
    IF hc.exc # None THEN [exc |-> hc.exc, value |-> NoneItem]
    ELSE IF \E i \in 1..Len(hc.value) : ~IsLayoutDOM(hc.value[i])
         THEN [exc |-> "ValueError", value |-> NoneItem]
         ELSE [exc |-> None, value |-> Row(hc.value, sizing_mode)]

column(args, children, sizing_mode) ==
    LET hc == _handle_children(args, children) IN
    IF hc.exc # None THEN [exc |-> hc.exc, value |-> NoneItem]
    ELSE IF \E i \in 1..Len(hc.value) : ~IsLayoutDOM(hc.value[i])
         THEN [exc |-> "ValueError", value |-> NoneItem]
         ELSE [exc |-> None, value |-> Column(hc.value, sizing_mode)]

-----------------------------------------------------------------------------
(* _create_grid, layout *)

RECURSIVE _create_grid_keeps_mode(_, _, _, _)
\* _create_grid without line 408: the items keep the sizing mode they had
_create_grid_keeps_mode(iterable, sizing_mode, layer, heap) ==
    LET RECURSIVE loop(_, _, _)
        loop(i, return_list, h) ==
            IF i > Len(iterable)
            THEN LET r == IF layer % 2 = 0
                          THEN column(<<>>, List(return_list), sizing_mode)
                          ELSE row(<<>>, List(return_list), sizing_mode)
                 IN  [exc |-> r.exc, value |-> r.value, heap |-> h]
            ELSE LET item == iterable[i] IN
                 IF IsList(item)
                 THEN LET sub == _create_grid_keeps_mode(item.list, sizing_mode, layer + 1, h) IN
                      IF sub.exc # None THEN sub
                      ELSE loop(i + 1, Append(return_list, sub.value), sub.heap)
                 ELSE IF IsLayoutDOM(item)
                 THEN loop(i + 1, Append(return_list, item), h)
                 ELSE [exc |-> "ValueError", value |-> NoneItem, heap |-> h]
    IN  loop(1, <<>>, heap)

RECURSIVE _create_grid(_, _, _, _)
\* heap is the sizing_mode heap before the call; the result carries the heap
\* after it (the items visited before a ValueError keep their new mode)
_create_grid(iterable, sizing_mode, layer, heap) ==
    LET RECURSIVE loop(_, _, _)
        loop(i, return_list, h) ==
            IF i > Len(iterable)
            THEN LET r == IF layer % 2 = 0
                          THEN column(<<>>, List(return_list), sizing_mode)
                          ELSE row(<<>>, List(return_list), sizing_mode)
                 IN  [exc |-> r.exc, value |-> r.value, heap |-> h]
            ELSE LET item == iterable[i] IN
                 IF IsList(item)
                 THEN LET sub == _create_grid(item.list, sizing_mode, layer + 1, h) IN
                      IF sub.exc # None THEN sub
                      ELSE loop(i + 1, Append(return_list, sub.value), sub.heap)
                 ELSE IF IsLayoutDOM(item)
                 THEN loop(i + 1, Append(return_list, item),
                           [h EXCEPT ![item.leaf] = sizing_mode])
                 ELSE [exc |-> "ValueError", value |-> NoneItem, heap |-> h]
    IN  loop(1, <<>>, heap)

\* layout starting _create_grid at layer 1
layout_row_first(args, children, sizing_mode, heap) ==
    LET hc == _handle_children(args, children) IN
    IF hc.exc # None THEN [exc |-> hc.exc, value |-> NoneItem, heap |-> heap]
    ELSE _create_grid(hc.value, sizing_mode, 1, heap)

layout(args, children, sizing_mode, heap) ==
    LET hc == _handle_children(args, children) IN
    IF hc.exc # None THEN [exc |-> hc.exc, value |-> NoneItem, heap |-> heap]
    ELSE _create_grid(hc.value, sizing_mode, 0, heap)

-----------------------------------------------------------------------------
(* The ways a caller hands a list L to row / column / layout *)

CallForms == {"positional", "keyword", "varargs", "both"}

ArgsOf(form, L) ==
    CASE form = "positional" -> <<List(L)>>
      [] form = "keyword"    -> <<>>
      [] form = "varargs"    -> L
      [] form = "both"       -> <<List(L)>>

ChildrenOf(form, L) ==
    IF form \in {"keyword", "both"} THEN List(L) ELSE NoneItem

NoCall == [op |-> "none", form |-> "none", given |-> <<>>, mode |-> None,
           exc |-> None, value |-> NoneItem]

NoGridSpec ==
    /\ nrows = 0 /\ ncols = 0 /\ arrangement = <<>>
    /\ gsop = <<>> /\ latest = <<>> /\ nassign = 0

\* the attributes of a Plot that was just made: bokeh's defaults
FreshPlots ==
    /\ toolbar_location = [p \in Plots |-> "right"]
    /\ plot_width = [p \in Plots |-> 600]
    /\ plot_height = [p \in Plots |-> 600]
    /\ gp = <<>>

InitLayout ==
    /\ sizing \in [LayoutDOMs -> SizingModes]
    /\ ret = NoCall
    /\ NoGridSpec
    /\ FreshPlots

LayoutCall ==
    /\ ret.op = "none"
    /\ \E L \in NestedLists, form \in CallForms, m \in SizingModes :
        LET r == layout(ArgsOf(form, L), ChildrenOf(form, L), m, sizing) IN
        /\ sizing' = r.heap
        /\ UNCHANGED <<gridVars, plotVars>>
        /\ ret' = [op |-> "layout", form |-> form, given |-> L, mode |-> m,
                   exc |-> r.exc, value |-> r.value]

RowCall ==
    /\ ret.op = "none"
    /\ \E L \in NestedLists, form \in CallForms, m \in SizingModes :
        LET r == row(ArgsOf(form, L), ChildrenOf(form, L), m) IN
        /\ ret' = [op |-> "row", form |-> form, given |-> L, mode |-> m,
                   exc |-> r.exc, value |-> r.value]
        /\ UNCHANGED <<sizing, gridVars, plotVars>>

ColumnCall ==
    /\ ret.op = "none"
    /\ \E L \in NestedLists, form \in CallForms, m \in SizingModes :
        LET r == column(ArgsOf(form, L), ChildrenOf(form, L), m) IN
        /\ ret' = [op |-> "column", form |-> form, given |-> L, mode |-> m,
                   exc |-> r.exc, value |-> r.value]
        /\ UNCHANGED <<sizing, gridVars, plotVars>>

\* the caller drops the returned object; the LayoutDOM objects live on
Discard ==
    /\ ret.op # "none"
    /\ ret' = NoCall
    /\ UNCHANGED <<sizing, gridVars, plotVars>>

-----------------------------------------------------------------------------
(* Reading a nested list, and a built tree *)

RECURSIVE Flatten(_)
\* the non-list elements of a nested list, left to right, depth first
Flatten(L) ==
    IF L = <<>> THEN <<>>
    ELSE (IF IsList(Head(L)) THEN Flatten(Head(L).list) ELSE <<Head(L)>>)
         \o Flatten(Tail(L))

RECURSIVE ValidNested(_)
ValidNested(L) ==
    \A i \in 1..Len(L) :
        IF IsList(L[i]) THEN ValidNested(L[i].list) ELSE IsLayoutDOM(L[i])

RECURSIVE MaxDepth(_)
MaxDepth(L) ==
    IF \A i \in 1..Len(L) : ~IsList(L[i]) THEN 0
    ELSE 1 + CHOOSE d \in 0..MaxSize + 1 :
                 /\ \E i \in 1..Len(L) : IsList(L[i]) /\ MaxDepth(L[i].list) = d
                 /\ \A i \in 1..Len(L) : IsList(L[i]) => MaxDepth(L[i].list) <= d

IsContainer(node) == "type" \in DOMAIN node

RECURSIVE TreeLeaves(_)
\* the leaves of a built tree, left to right, depth first
TreeLeaves(node) ==
    IF ~IsContainer(node) THEN <<node>>
    ELSE LET RECURSIVE cat(_)
             cat(i) == IF i > Len(node.children) THEN <<>>
                       ELSE TreeLeaves(node.children[i]) \o cat(i + 1)
         IN  cat(1)

RECURSIVE TreeModes(_)
\* the sizing modes of all nodes of a built tree, read in the current heap
TreeModes(node) ==
    IF ~IsContainer(node) THEN {sizing[node.leaf]}
    ELSE {node.sizing_mode}
         \cup UNION {TreeModes(node.children[i]) : i \in 1..Len(node.children)}

RECURSIVE Mirrors(_, _, _)
\* node is the container the list L becomes at nesting depth d: a Column at
\* even depth, a Row at odd depth, child i built from element i
Mirrors(node, L, d) ==
    /\ IsContainer(node)
    /\ node.type = IF d % 2 = 0 THEN "Column" ELSE "Row"
    /\ Len(node.children) = Len(L)
    /\ \A i \in 1..Len(L) :
        IF IsList(L[i]) THEN Mirrors(node.children[i], L[i].list, d + 1)
        ELSE node.children[i] = L[i]

ListPassed == ret.op = "layout" /\ ret.form \in {"positional", "keyword"}

(* C1: for every valid nested list passed to layout() with sizing mode m,   *)
(* the leaves of the returned tree, left to right and depth first, are the *)
(* input leaves in input order, and every node of the result (leaves and   *)
(* created containers) has sizing_mode m.                                  *)
C1_LeavesAndMode ==
    (ret.op = "layout" /\ ret.form # "both" /\ ValidNested(ret.given)) =>
        /\ ret.exc = None
        /\ TreeLeaves(ret.value) = Flatten(ret.given)
        /\ TreeModes(ret.value) = {ret.mode}

C1_Witness ==
    /\ ret.op = "layout" /\ ret.form = "positional" /\ ret.exc = None
    /\ MaxDepth(ret.given) = 1
    /\ Flatten(ret.given) = <<Leaf("b1"), Leaf("p1")>>
    /\ ret.mode = "stretch_both"

(* C5: after row(...) or column(...) returns, every child of the returned  *)
(* container has the sizing mode given to the call.                        *)
C5_ChildrenShareMode ==
    (ret.op \in {"row", "column"} /\ ret.exc = None) =>
        \A i \in 1..Len(ret.value.children) :
            sizing[ret.value.children[i].leaf] = ret.mode

(* C9: the containers alternate by nesting depth: the top-level list       *)
(* becomes a Column, a list at odd depth a Row, a list at even depth a     *)
(* Column; a list of lists gives a Column whose children are Rows.         *)
C9_Alternates ==
    (ListPassed /\ ret.exc = None) => Mirrors(ret.value, ret.given, 0)

C9_Witness ==
    /\ ListPassed /\ ret.exc = None
    /\ MaxDepth(ret.given) = 2
    /\ ret.value.type = "Column"
    /\ ret.value.children[1].type = "Row"
    /\ ret.value.children[1].children[1].type = "Column"

NextLayout == LayoutCall \/ RowCall \/ ColumnCall \/ Discard

SpecLayout == InitLayout /\ [][NextLayout]_vars

-----------------------------------------------------------------------------
(* GridSpec *)

\* an optional int is a sequence: <<>> is None, <<n>> is n
Scalar(k) == [int |-> k]
Slice(start, stop, step) == [start |-> start, stop |-> stop, step |-> step]
IsSlice(k) == "start" \in DOMAIN k

Max(a, b) == IF a > b THEN a ELSE b
Min(a, b) == IF a < b THEN a ELSE b

\* Python's slice.indices(length), for a step that is not 0
SliceIndices(k, length) ==
    LET step  == IF k.step = <<>> THEN 1 ELSE k.step[1]
        lower == IF step < 0 THEN -1 ELSE 0
        upper == IF step < 0 THEN length - 1 ELSE length
        clamp(v) == IF v < 0 THEN Max(v + length, lower) ELSE Min(v, upper)
        start == IF k.start = <<>> THEN (IF step < 0 THEN upper ELSE lower)
                 ELSE clamp(k.start[1])
        stop  == IF k.stop = <<>> THEN (IF step < 0 THEN lower ELSE upper)
                 ELSE clamp(k.stop[1])
    IN  <<start, stop, step>>

\* AxisOf without the test for an index still below 0
AxisOf_no_lower_check(k, n) ==
    IF IsSlice(k)
    THEN LET ix == SliceIndices(k, n) IN
         [exc |-> None, lo |-> ix[1], hi |-> <<ix[2]>>]
    ELSE LET k1 == IF k.int < 0 THEN k.int + n ELSE k.int IN
         IF k1 >= n
         THEN [exc |-> "IndexError", lo |-> 0, hi |-> <<>>]
         ELSE [exc |-> None, lo |-> k1, hi |-> <<>>]

\* one key of __setitem__ resolved against its dimension: [exc, lo, hi],
\* hi = <<>> standing for None (a scalar key)
AxisOf(k, n) ==
    IF IsSlice(k)
    THEN LET ix == SliceIndices(k, n) IN
         [exc |-> None, lo |-> ix[1], hi |-> <<ix[2]>>]
    ELSE LET k1 == IF k.int < 0 THEN k.int + n ELSE k.int IN
         IF k1 >= n \/ k1 < 0
         THEN [exc |-> "IndexError", lo |-> 0, hi |-> <<>>]
         ELSE [exc |-> None, lo |-> k1, hi |-> <<>>]

\* get_or_else(lambda: obj[i], None), i >= 0 counted from 0
GetOrElse(obj, i) == IF i < Len(obj) THEN obj[i + 1] ELSE None

\* get_or_else(lambda: obj[i][j], None)
GetOrElse2(obj, i, j) ==
    IF i < Len(obj) /\ j < Len(obj[i + 1]) THEN obj[i + 1][j + 1] ELSE None

\* range(a, b) as a sequence
Range(a, b) == [i \in 1..Max(b - a, 0) |-> a + i - 1]

\* Writes filling the whole rectangle of a two-slice key
Writes_cross_product(row1, row2, col1, col2, obj) ==
    IF row2 = <<>> /\ col2 = <<>>
    THEN << <<row1, col1, obj>> >>
    ELSE IF row2 = <<>>
    THEN LET cs == Range(col1, col2[1]) IN
         [i \in 1..Len(cs) |-> <<row1, cs[i], GetOrElse(obj, cs[i] - col1)>>]
    ELSE IF col2 = <<>>
    THEN LET rs == Range(row1, row2[1]) IN
         [i \in 1..Len(rs) |-> <<rs[i], col1, GetOrElse(obj, rs[i] - row1)>>]
    ELSE LET rs == Range(row1, row2[1])
             cs == Range(col1, col2[1])
         IN  [i \in 1..Len(rs) * Len(cs) |->
                 LET r == rs[((i - 1) \div Len(cs)) + 1]
                     c == cs[((i - 1) % Len(cs)) + 1]
                 IN  <<r, c, GetOrElse2(obj, r - row1, c - col1)>>]

\* the stores of __setitem__ in the order the code makes them
Writes(row1, row2, col1, col2, obj) ==
    IF row2 = <<>> /\ col2 = <<>>
    THEN << <<row1, col1, obj>> >>
    ELSE IF row2 = <<>>
    THEN LET cs == Range(col1, col2[1]) IN
         [i \in 1..Len(cs) |-> <<row1, cs[i], GetOrElse(obj, cs[i] - col1)>>]
    ELSE IF col2 = <<>>
    THEN LET rs == Range(row1, row2[1]) IN
         [i \in 1..Len(rs) |-> <<rs[i], col1, GetOrElse(obj, rs[i] - row1)>>]
    ELSE LET rs == Range(row1, row2[1])
             cs == Range(col1, col2[1])
         IN  [i \in 1..Min(Len(rs), Len(cs)) |->
                 <<rs[i], cs[i], GetOrElse2(obj, rs[i] - row1, cs[i] - col1)>>]

\* d[key] = val on a dict kept in insertion order
Put(d, key, val) ==
    IF \E i \in 1..Len(d) : d[i].key = key
    THEN [i \in 1..Len(d) |-> IF d[i].key = key THEN [key |-> key, val |-> val] ELSE d[i]]
    ELSE Append(d, [key |-> key, val |-> val])

RECURSIVE PutAll(_, _)
PutAll(d, ws) ==
    IF ws = <<>> THEN d
    ELSE PutAll(Put(d, <<Head(ws)[1], Head(ws)[2]>>, Head(ws)[3]), Tail(ws))

\* GridSpec.__setitem__ on a grid of nr x nc holding arr: [exc, arr, writes].
\* obj has the shape the key asks for: any value for two scalars, a list for
\* one slice, a list of lists for two
setitem(nr, nc, arr, k1, k2, obj) ==
    LET r == AxisOf(k1, nr)
        c == AxisOf(k2, nc)
    IN  IF r.exc # None THEN [exc |-> r.exc, arr |-> arr, writes |-> <<>>]
        ELSE IF c.exc # None THEN [exc |-> c.exc, arr |-> arr, writes |-> <<>>]
        ELSE LET ws == Writes(r.lo, r.hi, c.lo, c.hi, obj) IN
             [exc |-> None, arr |-> PutAll(arr, ws), writes |-> ws]

\* a Python list index: a negative one counts from the end
Wrap(i, n) == IF i < 0 THEN i + n ELSE i

RECURSIVE Fill(_, _, _, _)
Fill(array, d, nr, nc) ==
    IF d = <<>> THEN array
    ELSE Fill([array EXCEPT ![Wrap(Head(d).key[1], nr)][Wrap(Head(d).key[2], nc)] = Head(d).val],
              Tail(d), nr, nc)

\* GridSpec.__iter__: the dense array, rows and columns counted from 0
Iter(nr, nc, arr) ==
    Fill([r \in 0..nr - 1 |-> [c \in 0..nc - 1 |-> None]], arr, nr, nc)

-----------------------------------------------------------------------------
(* Bounded inputs of GridSpec *)

MaxDim == 2
MaxLen == 2

ScalarKeys(n) == {Scalar(k) : k \in -(n + 1)..n}
SliceKeys(n) ==
    {Slice(s, e, t) : s \in {<<>>, <<1>>, <<-(n + 1)>>},
                      e \in {<<>>, <<-1>>, <<n + 1>>},
                      t \in {<<>>, <<-1>>}}

\* the values stored are told apart by where they come from: the code moves
\* values and never looks into them
Obj0 == {None, "s"}
Tok1 == <<"x0", "x1", "x2", "x3">>
Tok2 == << <<"m00", "m01", "m02", "m03">>, <<"m10", "m11", "m12", "m13">>,
           <<"m20", "m21", "m22", "m23">>, <<"m30", "m31", "m32", "m33">> >>
Obj1 == {[i \in 1..n |-> Tok1[i]] : n \in 0..MaxLen}
Shapes == UNION {[1..n -> 0..MaxLen] : n \in 0..MaxLen}
Obj2 == {[i \in 1..Len(sh) |-> [j \in 1..sh[i] |-> Tok2[i][j]]] : sh \in Shapes}

\* the arrangement after gs[r, c] = "old" for the first k cells, row by row
Prior(nr, nc, k) ==
    [i \in 1..k |-> [key |-> <<(i - 1) \div nc, (i - 1) % nc>>, val |-> "old"]]

\* earlier assignments: none, the first row, every cell
PriorCounts(nr, nc) == {0, nc, nr * nc}

NoLayout ==
    /\ sizing = [x \in LayoutDOMs |-> None]
    /\ ret = NoCall

InitGridSpec ==
    /\ NoLayout
    /\ FreshPlots
    /\ nrows \in 1..MaxDim
    /\ ncols \in 1..MaxDim
    /\ \E k \in PriorCounts(nrows, ncols) : arrangement = Prior(nrows, ncols, k)
    /\ latest = Iter(nrows, ncols, arrangement)
    /\ gsop = <<>>
    /\ nassign = 0

Latest(old, ws, nr, nc) ==
    LET RECURSIVE go(_, _)
        go(l, w) ==
            IF w = <<>> THEN l
            ELSE go([l EXCEPT ![Wrap(Head(w)[1], nr)][Wrap(Head(w)[2], nc)] = Head(w)[3]],
                    Tail(w))
    IN  go(old, ws)

Assign(k1, k2, obj, shape) ==
    LET r == setitem(nrows, ncols, arrangement, k1, k2, obj) IN
    /\ arrangement' = r.arr
    /\ latest' = Latest(latest, r.writes, nrows, ncols)
    /\ gsop' = [k1 |-> k1, k2 |-> k2, obj |-> obj, shape |-> shape,
                exc |-> r.exc, before |-> arrangement]
    /\ nassign' = nassign + 1
    /\ UNCHANGED <<nrows, ncols, layoutVars, plotVars>>

\* gs[r, c] = obj
SetCell ==
    /\ nassign = 0
    /\ \E k1 \in ScalarKeys(nrows), k2 \in ScalarKeys(ncols), obj \in Obj0 :
        Assign(k1, k2, obj, "cell")

\* gs[r1:r2, c] = [...]
SetColumnSlice ==
    /\ nassign = 0
    /\ \E k1 \in SliceKeys(nrows), k2 \in ScalarKeys(ncols), obj \in Obj1 :
        Assign(k1, k2, obj, "rows")

\* gs[r, c1:c2] = [...]
SetRowSlice ==
    /\ nassign = 0
    /\ \E k1 \in ScalarKeys(nrows), k2 \in SliceKeys(ncols), obj \in Obj1 :
        Assign(k1, k2, obj, "cols")

\* gs[r1:r2, c1:c2] = [[...], ...]
SetBlock ==
    /\ nassign = 0
    /\ \E k1 \in SliceKeys(nrows), k2 \in SliceKeys(ncols), obj \in Obj2 :
        Assign(k1, k2, obj, "block")

NextGridSpec == SetCell \/ SetColumnSlice \/ SetRowSlice \/ SetBlock

SpecGridSpec == InitGridSpec /\ [][NextGridSpec]_vars

-----------------------------------------------------------------------------
(* Sequences of assignments on a fresh GridSpec: scalar keys, and row      *)
(* slices with either step, against a scalar column                        *)

MaxAssign == 3

SeqSlices(n) == {Slice(s, <<-1>>, t) : s \in {<<>>, <<-(n + 1)>>}, t \in {<<>>, <<-1>>}}

InitGridSeq ==
    /\ NoLayout
    /\ FreshPlots
    /\ nrows \in 1..MaxDim
    /\ ncols \in 1..MaxDim
    /\ arrangement = <<>>
    /\ latest = Iter(nrows, ncols, arrangement)
    /\ gsop = <<>>
    /\ nassign = 0

AssignNext(k1, k2, obj) ==
    LET r == setitem(nrows, ncols, arrangement, k1, k2, obj) IN
    /\ arrangement' = r.arr
    /\ latest' = Latest(latest, r.writes, nrows, ncols)
    /\ nassign' = nassign + 1
    /\ UNCHANGED <<nrows, ncols, gsop, layoutVars, plotVars>>

PutCell ==
    /\ nassign < MaxAssign
    /\ \E k1 \in ScalarKeys(nrows), k2 \in ScalarKeys(ncols), obj \in {"a", "b"} :
        AssignNext(k1, k2, obj)

PutRows ==
    /\ nassign < MaxAssign
    /\ \E k1 \in SeqSlices(nrows), k2 \in ScalarKeys(ncols), obj \in {<<"a">>, <<"b">>} :
        AssignNext(k1, k2, obj)

NextGridSeq == PutCell \/ PutRows

SpecGridSeq == InitGridSeq /\ [][NextGridSeq]_vars

-----------------------------------------------------------------------------
(* Claims about GridSpec *)

Lookup(d, key) ==
    IF \E i \in 1..Len(d) : d[i].key = key
    THEN <<d[CHOOSE i \in 1..Len(d) : d[i].key = key].val>>
    ELSE <<>>

KeysOf(d) == {d[i].key : i \in 1..Len(d)}

(* C2: after any sequence of successful assignments, iteration yields      *)
(* nrows rows of ncols cells, cell (r, c) holding the value most recently  *)
(* stored at (r, c), None if nothing was stored there.                     *)
C2_DenseLatest ==
    LET array == Iter(nrows, ncols, arrangement) IN
    /\ DOMAIN array = 0..nrows - 1
    /\ \A r \in 0..nrows - 1 :
        /\ DOMAIN array[r] = 0..ncols - 1
        /\ \A c \in 0..ncols - 1 : array[r][c] = latest[r][c]

OutOfRange(k, n) ==
    /\ ~IsSlice(k)
    /\ LET j == IF k.int < 0 THEN k.int + n ELSE k.int IN j < 0 \/ j >= n

(* C7: an assignment whose row key or column key is a scalar outside the   *)
(* grid raises IndexError and leaves the arrangement unchanged, also when  *)
(* the other key is valid or is a slice.                                   *)
C7_IndexError ==
    (gsop # <<>> /\ (OutOfRange(gsop.k1, nrows) \/ OutOfRange(gsop.k2, ncols))) =>
        /\ gsop.exc = "IndexError"
        /\ arrangement = gsop.before

C7_Witness ==
    /\ gsop # <<>>
    /\ IsSlice(gsop.k1) /\ OutOfRange(gsop.k2, ncols)
    /\ gsop.exc = "IndexError"
    /\ gsop.before # <<>>
    /\ arrangement = gsop.before

DiagValue(obj, i) ==
    IF i + 1 <= Len(obj) THEN (IF i + 1 <= Len(obj[i + 1]) THEN obj[i + 1][i + 1] ELSE None)
    ELSE None

(* C8: gs[r1:r2, c1:c2] = obj writes exactly the cells (r1+i, c1+i),       *)
(* 0 <= i < min(r2-r1, c2-c1), each with obj[i][i] (None where obj has no  *)
(* such element), and no other cell; r1, r2, c1, c2 are the bounds the     *)
(* slices resolve to on the grid.                                          *)
C8_PairsPositionally ==
    (gsop # <<>> /\ gsop.shape = "block" /\ gsop.exc = None) =>
        LET r == SliceIndices(gsop.k1, nrows)
            c == SliceIndices(gsop.k2, ncols)
            n == Max(Min(r[2] - r[1], c[2] - c[1]), 0)
            diag == {<<r[1] + i, c[1] + i>> : i \in 0..n - 1}
        IN  /\ \A i \in 0..n - 1 :
                Lookup(arrangement, <<r[1] + i, c[1] + i>>) = <<DiagValue(gsop.obj, i)>>
            /\ \A key \in (KeysOf(arrangement) \cup KeysOf(gsop.before)) \ diag :
                Lookup(arrangement, key) = Lookup(gsop.before, key)

C8_Witness ==
    /\ gsop # <<>> /\ gsop.shape = "block" /\ gsop.exc = None
    /\ nrows = 2 /\ ncols = 2
    /\ gsop.k1 = Slice(<<>>, <<>>, <<>>) /\ gsop.k2 = Slice(<<>>, <<>>, <<>>)
    /\ gsop.obj = << <<"m00", "m01">>, <<"m10">> >>
    /\ Iter(nrows, ncols, gsop.before) = [r \in 0..1 |-> [c \in 0..1 |-> "old"]]
    /\ Iter(nrows, ncols, arrangement)
         = [r \in 0..1 |-> [c \in 0..1 |-> IF r # c THEN "old" ELSE IF r = 0 THEN "m00" ELSE None]]

-----------------------------------------------------------------------------
(* gridplot *)

\* plot.toolbar.tools of each Plot
ToolsOf(p) == IF p = "p1" THEN <<"pan", "wheel_zoom">> ELSE <<"pan", "reset", "save">>

\* the plots a container holds
BoxPlots(b) == <<"p2">>

\* the names of bokeh.core.enums.Location
Locations == {"above", "below", "left", "right"}

\* item.select(dict(type=Plot)): the item itself when it is a Plot, and the
\* plots below it
select(item) == IF item.leaf \in Plots THEN <<item.leaf>> ELSE BoxPlots(item.leaf)

\* _chunks yielding l[i : ncols]
_chunks_fixed_end(l, n) ==
    IF n < 0 THEN <<>>
    ELSE [c \in 1..((Len(l) + n - 1) \div n) |->
             List(SubSeq(l, (c - 1) * n + 1, Min(n, Len(l))))]

\* _chunks(l, ncols): l[i : i + ncols] for i in range(0, len(l), ncols)
_chunks(l, n) ==
    IF n < 0 THEN <<>>
    ELSE [c \in 1..((Len(l) + n - 1) \div n) |->
             List(SubSeq(l, (c - 1) * n + 1, Min(c * n, Len(l))))]

\* ApplyNcols without the test for a nested list
ApplyNcols_unchecked(children, n) ==
    IF n # <<>> /\ n[1] # 0
    THEN [exc |-> None, value |-> _chunks(children, n[1])]
    ELSE [exc |-> None, value |-> children]

\* lines 269-272: ncols is <<>> for None
ApplyNcols(children, n) ==
    IF n # <<>> /\ n[1] # 0
    THEN IF \E i \in 1..Len(children) : IsList(children[i])
         THEN [exc |-> "ValueError", value |-> <<>>]
         ELSE [exc |-> None, value |-> _chunks(children, n[1])]
    ELSE [exc |-> None, value |-> children]

RECURSIVE MergeTools_overwrite(_, _)
\* MergeTools with tools = plot.toolbar.tools in place of +=
MergeTools_overwrite(acc, ps) ==
    IF ps = <<>> THEN acc
    ELSE MergeTools_overwrite([acc EXCEPT !.tools = ToolsOf(Head(ps)),
                                          !.tl = [@ EXCEPT ![Head(ps)] = None]],
                              Tail(ps))

RECURSIVE MergeTools(_, _)
\* lines 288-290, for the plots ps in turn
MergeTools(acc, ps) ==
    IF ps = <<>> THEN acc
    ELSE MergeTools([acc EXCEPT !.tools = @ \o ToolsOf(Head(ps)),
                                !.tl = [@ EXCEPT ![Head(ps)] = None]],
                    Tail(ps))

\* lines 292-296
Resize(acc, item, width, height) ==
    IF item.leaf \in Plots
    THEN [acc EXCEPT !.pw = IF width # <<>>  THEN [@ EXCEPT ![item.leaf] = width[1]] ELSE @,
                     !.ph = IF height # <<>> THEN [@ EXCEPT ![item.leaf] = height[1]] ELSE @]
    ELSE acc

\* lines 284-299 for one item, at row y and column x counted from 0
PlaceItem(acc, item, y, x, width, height, merge_tools) ==
    IF IsNone(item) THEN acc
    ELSE IF IsLayoutDOM(item)
    THEN LET a1 == IF merge_tools THEN MergeTools(acc, select(item)) ELSE acc
             a2 == Resize(a1, item, width, height)
         IN  [a2 EXCEPT !.items = Append(@, <<item.leaf, y, x>>)]
    ELSE [acc EXCEPT !.exc = "ValueError"]

RECURSIVE RowLoop(_, _, _, _, _, _, _)
RowLoop(acc, cells, y, x, width, height, merge_tools) ==
    IF x >= Len(cells) \/ acc.exc # None THEN acc
    ELSE RowLoop(PlaceItem(acc, cells[x + 1], y, x, width, height, merge_tools),
                 cells, y, x + 1, width, height, merge_tools)

RECURSIVE GridLoop(_, _, _, _, _, _)
\* lines 282-299; a row that is no list cannot be iterated
GridLoop(acc, children, y, width, height, merge_tools) ==
    IF y >= Len(children) \/ acc.exc # None THEN acc
    ELSE IF ~IsList(children[y + 1]) THEN [acc EXCEPT !.exc = "TypeError"]
    ELSE GridLoop(RowLoop(acc, children[y + 1].list, y, 0, width, height, merge_tools),
                  children, y + 1, width, height, merge_tools)

GridBox(children, sizing_mode) ==
    [type |-> "GridBox", children |-> children, sizing_mode |-> sizing_mode]

ProxyToolbar(tools) == [type |-> "ProxyToolbar", tools |-> tools]

ToolbarBox(toolbar, location) ==
    [type |-> "ToolbarBox", toolbar |-> toolbar, toolbar_location |-> location]

\* Assemble with the toolbar on the wrong side for 'left' and 'right'
Assemble_swapped(items, tools, sizing_mode, location, merge_tools) ==
    IF ~merge_tools \/ location = None
    THEN [type |-> "GridBox", children |-> items, sizing_mode |-> sizing_mode]
    ELSE LET grid    == [type |-> "GridBox", children |-> items, sizing_mode |-> None]
             toolbar == [type |-> "ToolbarBox",
                         toolbar |-> [type |-> "ProxyToolbar", tools |-> tools],
                         toolbar_location |-> location]
         IN  CASE location = "above" -> Column(<<toolbar, grid>>, sizing_mode)
               [] location = "below" -> Column(<<grid, toolbar>>, sizing_mode)
               [] location = "left"  -> Row(<<grid, toolbar>>, sizing_mode)
               [] location = "right" -> Row(<<toolbar, grid>>, sizing_mode)

\* lines 301-315
Assemble(items, tools, sizing_mode, location, merge_tools) ==
    IF ~merge_tools \/ location = None
    THEN GridBox(items, sizing_mode)
    ELSE LET grid    == GridBox(items, None)
             toolbar == ToolbarBox(ProxyToolbar(tools), location)
         IN  CASE location = "above" -> Column(<<toolbar, grid>>, sizing_mode)
               [] location = "below" -> Column(<<grid, toolbar>>, sizing_mode)
               [] location = "left"  -> Row(<<toolbar, grid>>, sizing_mode)
               [] location = "right" -> Row(<<grid, toolbar>>, sizing_mode)

\* heap is [tl, pw, ph], the plots' attributes before the call
gridplot(children, sizing_mode, location, n, width, height, merge_tools, heap) ==
    LET fail(e) == [exc |-> e, value |-> NoneItem, heap |-> heap] IN
    IF location # None /\ location \notin Locations THEN fail("ValueError")
    ELSE LET hc == _handle_children(<<>>, List(children))
             nc == ApplyNcols(hc.value, n)
         IN  IF nc.exc # None THEN fail(nc.exc)
             ELSE LET acc == GridLoop([exc |-> None, tools |-> <<>>, items |-> <<>>,
                                       tl |-> heap.tl, pw |-> heap.pw, ph |-> heap.ph],
                                      nc.value, 0, width, height, merge_tools)
                      after == [tl |-> acc.tl, pw |-> acc.pw, ph |-> acc.ph]
                  IN  IF acc.exc # None
                      THEN [exc |-> acc.exc, value |-> NoneItem, heap |-> after]
                      ELSE [exc |-> None,
                            value |-> Assemble(acc.items, acc.tools, sizing_mode,
                                               location, merge_tools),
                            heap |-> after]

-----------------------------------------------------------------------------
(* Bounded inputs of gridplot *)

MaxCells == 3
MaxCols == 2

GridChildren ==
    UNION { Forests(n, {Leaf(x) : x \in LayoutDOMs} \cup {NoneItem}) : n \in 0..MaxCells }

NcolsArgs == {<<>>} \cup {<<n>> : n \in -1..MaxCols}

InitGridplot ==
    /\ NoLayout
    /\ NoGridSpec
    /\ FreshPlots

GridplotCall ==
    /\ gp = <<>>
    /\ \E children \in GridChildren, n \in NcolsArgs,
          location \in Locations \cup {None, "center"},
          sizing_mode \in {None, "fixed"}, merge_tools \in BOOLEAN,
          width \in {<<>>, <<300>>}, height \in {<<>>, <<200>>} :
        LET r == gridplot(children, sizing_mode, location, n, width, height, merge_tools,
                          [tl |-> toolbar_location, pw |-> plot_width, ph |-> plot_height])
        IN  /\ toolbar_location' = r.heap.tl
            /\ plot_width' = r.heap.pw
            /\ plot_height' = r.heap.ph
            /\ gp' = [children |-> children, ncols |-> n, location |-> location,
                      sizing_mode |-> sizing_mode, merge_tools |-> merge_tools,
                      exc |-> r.exc, value |-> r.value]
            /\ UNCHANGED <<layoutVars, gridVars>>

NextGridplot == GridplotCall

SpecGridplot == InitGridplot /\ [][NextGridplot]_vars

-----------------------------------------------------------------------------
(* Claims about gridplot *)

Called == gp # <<>>

\* the GridBox of a result, and the toolbar boxes around it
GridOf(value) ==
    IF value.type = "GridBox" THEN value
    ELSE value.children[CHOOSE i \in 1..Len(value.children) :
                            value.children[i].type = "GridBox"]

ToolbarsOf(value) ==
    IF value.type = "GridBox" THEN {}
    ELSE {i \in 1..Len(value.children) : value.children[i].type = "ToolbarBox"}

\* the plots at and below the grid positions of a children list, in order
PlotsUnder(x) == IF x \in Plots THEN <<x>> ELSE BoxPlots(x)

RECURSIVE GridPlots(_)
\* items are the children of a GridBox: <<object, row, column>>
GridPlots(items) ==
    IF items = <<>> THEN <<>>
    ELSE PlotsUnder(Head(items)[1]) \o GridPlots(Tail(items))

RECURSIVE ToolSum(_)
ToolSum(ps) == IF ps = <<>> THEN 0 ELSE Len(ToolsOf(Head(ps))) + ToolSum(Tail(ps))

Detached(ps) == \A i \in 1..Len(ps) : toolbar_location[ps[i]] = None

OneToolbar(value, ps) ==
    /\ Cardinality(ToolbarsOf(value)) = 1
    /\ \A i \in ToolbarsOf(value) :
        Len(value.children[i].toolbar.tools) = ToolSum(ps)

(* C3 as stated: with merge_tools=True the result holds a single toolbar   *)
(* whose tool count is the sum of the plots' tool counts, and every plot   *)
(* of the grid ends with toolbar_location None.                            *)
C3_SingleToolbar ==
    (Called /\ gp.merge_tools /\ gp.exc = None) =>
        LET ps == GridPlots(GridOf(gp.value).children) IN
        /\ OneToolbar(gp.value, ps)
        /\ Detached(ps)

(* C3 amended: with merge_tools=True every plot of the grid ends with      *)
(* toolbar_location None; when toolbar_location is one of above, below,    *)
(* left, right as well, the result holds a single toolbar whose tool count *)
(* is the sum of the tool counts of the plots, counted once per grid       *)
(* position they occur at.                                                 *)
C3_MergedToolbar ==
    (Called /\ gp.merge_tools /\ gp.exc = None) =>
        LET ps == GridPlots(GridOf(gp.value).children) IN
        /\ Detached(ps)
        /\ gp.location \in Locations => OneToolbar(gp.value, ps)

C3_Witness ==
    /\ Called /\ gp.merge_tools /\ gp.exc = None
    /\ gp.location = "below"
    /\ gp.children = <<List(<<Leaf("p1"), Leaf("b1")>>)>>
    /\ Len(gp.value.children[2].toolbar.tools) = 5
    /\ toolbar_location = [p \in Plots |-> None]

HasNested(children) == \E i \in 1..Len(children) : IsList(children[i])

(* C4 as stated: a column count together with a children list holding a    *)
(* list fails with ValueError and returns no layout.                       *)
C4_NcolsNested ==
    (Called /\ gp.ncols # <<>> /\ HasNested(gp.children)) =>
        gp.exc = "ValueError" /\ gp.value = NoneItem

Untouched ==
    /\ toolbar_location = [p \in Plots |-> "right"]
    /\ plot_width = [p \in Plots |-> 600]
    /\ plot_height = [p \in Plots |-> 600]

(* C4 amended: a column count other than 0 together with a children list   *)
(* holding a list fails with ValueError and returns no layout; the call    *)
(* fails in validation, before any plot is modified.                       *)
C4_NonzeroNcolsNested ==
    (Called /\ gp.ncols # <<>> /\ gp.ncols # <<0>> /\ HasNested(gp.children)) =>
        gp.exc = "ValueError" /\ gp.value = NoneItem /\ Untouched

C4_Witness ==
    /\ Called /\ gp.ncols = <<2>> /\ gp.location = "above" /\ gp.merge_tools
    /\ gp.children = <<Leaf("p1"), List(<<Leaf("b1")>>)>>
    /\ gp.exc = "ValueError" /\ gp.value = NoneItem
    /\ toolbar_location["p1"] = "right"

TypesOf(value) == [i \in 1..Len(value.children) |-> value.children[i].type]

(* C6: with merged tools, 'above' gives a Column [toolbar, grid], 'below'  *)
(* a Column [grid, toolbar], 'left' a Row [toolbar, grid], 'right' a Row   *)
(* [grid, toolbar]; with toolbar_location None the bare grid is returned.  *)
C6_Placement ==
    (Called /\ gp.merge_tools /\ gp.exc = None) =>
        LET v == gp.value IN
        CASE gp.location = "above" ->
                v.type = "Column" /\ TypesOf(v) = <<"ToolbarBox", "GridBox">>
          [] gp.location = "below" ->
                v.type = "Column" /\ TypesOf(v) = <<"GridBox", "ToolbarBox">>
          [] gp.location = "left" ->
                v.type = "Row" /\ TypesOf(v) = <<"ToolbarBox", "GridBox">>
          [] gp.location = "right" ->
                v.type = "Row" /\ TypesOf(v) = <<"GridBox", "ToolbarBox">>
          [] gp.location = None -> v.type = "GridBox"

C6_Witness ==
    /\ Called /\ gp.merge_tools /\ gp.exc = None
    /\ gp.location = "left"
    /\ gp.value.type = "Row"
    /\ gp.value.children[1].type = "ToolbarBox"
    /\ gp.value.children[2].type = "GridBox"
    /\ gp.value.children[2].children # <<>>

FlatValid(children) ==
    \A i \in 1..Len(children) : IsNone(children[i]) \/ IsLayoutDOM(children[i])

RECURSIVE Placed(_, _, _)
\* the non-None children from index i on (counted from 0), each with its
\* row i div n and column i mod n
Placed(children, i, n) ==
    IF i >= Len(children) THEN <<>>
    ELSE (IF IsNone(children[i + 1]) THEN <<>>
          ELSE << <<children[i + 1].leaf, i \div n, i % n>> >>)
         \o Placed(children, i + 1, n)

(* C10: a flat list with a positive column count n is chunked into rows of *)
(* width n: the non-None child at index i is placed at row i div n, column *)
(* i mod n, a None child leaves its position empty, every row but the last *)
(* has n positions, and the placed items are the non-None children in      *)
(* input order.                                                            *)
C10_Chunked ==
    (/\ Called /\ gp.ncols # <<>> /\ gp.location \in Locations \cup {None}
     /\ FlatValid(gp.children)) =>
        (gp.ncols[1] > 0 =>
            LET n == gp.ncols[1]
                rows == _chunks(gp.children, n)
            IN  /\ gp.exc = None
                /\ GridOf(gp.value).children = Placed(gp.children, 0, n)
                /\ \A y \in 1..Len(rows) - 1 : Len(rows[y].list) = n
                /\ Len(rows) > 0 => Len(rows[Len(rows)].list) \in 1..n
                /\ Len(rows) = 0 <=> gp.children = <<>>)

C10_Witness ==
    /\ Called /\ gp.ncols = <<2>> /\ gp.exc = None
    /\ gp.children = <<Leaf("p1"), NoneItem, Leaf("b1")>>
    /\ GridOf(gp.value).children = << <<"p1", 0, 0>>, <<"b1", 1, 0>> >>

====
